---- MODULE Spec2Model ----
(***************************************************************************)
(* Three linear-programming scripts (factory planning 2, food manufacture  *)
(* 1, manpower planning) built on the pywraplp solver interface.  Each     *)
(* script registers decision variables, adds linear constraints, sets one  *)
(* objective, calls Solve once and prints a report.                        *)
(*                                                                         *)
(* The solver object is modelled by its variable list, its constraint list *)
(* and its objective.  Python floats are modelled in fixed point: every    *)
(* coefficient and constant of a linear expression is held multiplied by   *)
(* Scale (so 0.05 is 5 and 1 is 100).  Values of decision variables are    *)
(* held on a grid of 1/VDen units (so the value 50 is 50 * VDen).          *)
(***************************************************************************)
EXTENDS Integers, Sequences, FiniteSets, TLC

VARIABLES prog, pc, i, variables, constraints, objective, objSets, dv,
          solveCalls, status, solution, objReads, output

vars == <<prog, pc, i, variables, constraints, objective, objSets, dv,
          solveCalls, status, solution, objReads, output>>

\* Fixed-point denominator of the float literals of the data tables
\* (the finest literal is 0.05, 0.01: two decimal places).
Scale == 100

\* Denominator of the grid on which solver values are enumerated.
VDen == 2

\* Largest change, in grid steps, of one coordinate of a base point.
MaxDelta == 2

(***************************************************************************)
(* Python helpers                                                          *)
(***************************************************************************)

\* list.index(x): 0-based position of the first occurrence of x.
PyIndex(seq, x) == (CHOOSE n \in 1..Len(seq) :
                      seq[n] = x /\ \A m \in 1..(n - 1) : seq[m] # x) - 1

\* seq[k] with Python's 0-based indexing; a negative k counts from the end.
PyGet(seq, k) == IF k < 0 THEN seq[Len(seq) + k + 1] ELSE seq[k + 1]

\* seq[1:]
PyTail(seq) == SubSeq(seq, 2, Len(seq))

\* list(itertools.product(a, b)): the last index runs fastest.
Product2(a, b) ==
    [n \in 1..(Len(a) * Len(b)) |->
        <<a[((n - 1) \div Len(b)) + 1], b[((n - 1) % Len(b)) + 1]>>]

\* list(itertools.product(a, b, c))
Product3(a, b, c) ==
    [n \in 1..(Len(a) * Len(b) * Len(c)) |->
        <<a[((n - 1) \div (Len(b) * Len(c))) + 1],
          b[(((n - 1) \div Len(c)) % Len(b)) + 1],
          c[((n - 1) % Len(c)) + 1]>>]

\* str(t) of a tuple (str, str), (int, str) and (int, str, str): strings
\* are quoted, integers are not.
PyStrTuple(t) == "('" \o t[1] \o "', '" \o t[2] \o "')"

PyStrTupleIS(t) == "(" \o ToString(t[1]) \o ", '" \o t[2] \o "')"

PyStrTupleISS(t) == "(" \o ToString(t[1]) \o ", '" \o t[2] \o "', '" \o t[3] \o "')"

(***************************************************************************)
(* Linear expressions and the solver object (pywraplp)                     *)
(***************************************************************************)

\* A variable handle used as an expression.
V(h) == [terms |-> << <<Scale, h>> >>, const |-> 0]

\* An integer constant used as an expression.
K(c) == [terms |-> << >>, const |-> c * Scale]

\* kS * e, kS a number in fixed point.
Times(kS, e) ==
    [terms |-> [n \in 1..Len(e.terms) |->
                   <<(kS * e.terms[n][1]) \div Scale, e.terms[n][2]>>],
     const |-> (kS * e.const) \div Scale]

Plus(e1, e2) == [terms |-> e1.terms \o e2.terms, const |-> e1.const + e2.const]

Neg(e) == [terms |-> [n \in 1..Len(e.terms) |-> <<-e.terms[n][1], e.terms[n][2]>>],
           const |-> -e.const]

Minus(e1, e2) == Plus(e1, Neg(e2))

\* model.Sum(es): the sum of a sequence of expressions.
RECURSIVE SumE(_)
SumE(es) ==
    IF Len(es) = 0 THEN K(0)
    ELSE IF Len(es) = 1 THEN es[1]
    ELSE LET mid == Len(es) \div 2
         IN  Plus(SumE(SubSeq(es, 1, mid)), SumE(SubSeq(es, mid + 1, Len(es))))

\* The constraint object built by lhs == rhs, lhs <= rhs, lhs >= rhs.
Rel(lhs, op, rhs) == [lhs |-> lhs, rel |-> op, rhs |-> rhs]

\* The value of e under assignment a (handle -> value in 1/VDen units),
\* multiplied by Scale * VDen.
RECURSIVE TermSum(_, _)
TermSum(ts, a) ==
    IF Len(ts) = 0 THEN 0
    ELSE IF Len(ts) = 1 THEN ts[1][1] * a[ts[1][2]]
    ELSE LET mid == Len(ts) \div 2
         IN  TermSum(SubSeq(ts, 1, mid), a) + TermSum(SubSeq(ts, mid + 1, Len(ts)), a)

Eval(e, a) == e.const * VDen + TermSum(e.terms, a)

Sat(c, a) ==
    CASE c.rel = "==" -> Eval(c.lhs, a) = Eval(c.rhs, a)
      [] c.rel = "<=" -> Eval(c.lhs, a) <= Eval(c.rhs, a)
      [] c.rel = ">=" -> Eval(c.lhs, a) >= Eval(c.rhs, a)

\* A variable object of the solver.
MakeVar(lb, ub, name, isInt) ==
    [name |-> name, lb |-> lb, ub |-> ub, integer |-> isInt]

(***************************************************************************)
(* Control state shared by the three scripts                               *)
(***************************************************************************)

Programs == {"factory", "food", "manpower"}

Families == {"manufacture", "inventory", "sold", "repair",
             "prod", "oil_buy", "oil_consume", "oil_inventory",
             "hire", "part_time", "workforce", "layoff", "excess", "train"}

NoObjective == [expr |-> K(0), sense |-> "none"]

FirstBlock(p) ==
    CASE p = "factory" -> "f_manufacture"
      [] p = "food" -> "o_prod"
      [] p = "manpower" -> "m_hire"

Init ==
    /\ prog \in Programs
    /\ pc = FirstBlock(prog)
    /\ i = 1
    /\ variables = << >>
    /\ constraints = << >>
    /\ objective = NoObjective
    /\ objSets = 0
    /\ dv = [f \in Families |-> << >>]
    /\ solveCalls = 0
    /\ status = "NONE"
    /\ solution = << >>
    /\ objReads = 0
    /\ output = << >>

\* One iteration of a loop of n iterations that is followed by block next.
Advance(n, next) ==
    IF i < n THEN pc' = pc /\ i' = i + 1 ELSE pc' = next /\ i' = 1

\* dv_family[key]: the handle stored under the key; 0 stands for the KeyError
\* Python raises when the key is absent.
Subscript(family, key) ==
    IF key \in DOMAIN dv[family] THEN dv[family][key] ELSE 0

\* Building the expression raised KeyError.
Raises(e) == \E n \in 1..Len(e.terms) : e.terms[n][2] = 0

\* One entry of a dict comprehension {key: model.NumVar(...) ...}: the new
\* variable's handle is its position in the solver's variable list.
Register(family, key, var, n, next) ==
    /\ variables' = Append(variables, var)
    /\ dv' = [dv EXCEPT ![family] = (key :> Len(variables) + 1) @@ @]
    /\ Advance(n, next)
    /\ UNCHANGED <<prog, constraints, objective, objSets, solveCalls, status,
                   solution, objReads, output>>

\* model.Add(c) inside a loop of n iterations; an uncaught KeyError ends
\* the script.
AddCon(c, n, next) ==
    /\ IF Raises(c.lhs) \/ Raises(c.rhs)
       THEN pc' = "KeyError" /\ UNCHANGED <<i, constraints>>
       ELSE constraints' = Append(constraints, c) /\ Advance(n, next)
    /\ UNCHANGED <<prog, variables, objective, objSets, dv, solveCalls, status,
                   solution, objReads, output>>

\* model.Add(c1); model.Add(c2) in one iteration of a loop of n iterations.
AddCon2(c1, c2, n, next) ==
    /\ IF Raises(c1.lhs) \/ Raises(c1.rhs)
       THEN pc' = "KeyError" /\ UNCHANGED <<i, constraints>>
       ELSE IF Raises(c2.lhs) \/ Raises(c2.rhs)
       THEN pc' = "KeyError" /\ i' = i /\ constraints' = Append(constraints, c1)
       ELSE constraints' = Append(Append(constraints, c1), c2) /\ Advance(n, next)
    /\ UNCHANGED <<prog, variables, objective, objSets, dv, solveCalls, status,
                   solution, objReads, output>>

\* model.Maximize(e) / model.Minimize(e)
SetObjective(e, sense, next) ==
    /\ IF Raises(e)
       THEN pc' = "KeyError" /\ UNCHANGED <<objective, objSets>>
       ELSE /\ objective' = [expr |-> e, sense |-> sense]
            /\ objSets' = objSets + 1
            /\ pc' = next
    /\ i' = 1
    /\ UNCHANGED <<prog, variables, constraints, dv, solveCalls, status,
                   solution, objReads, output>>

(***************************************************************************)
(* factory_planning_2_ortools.py: data                                     *)
(***************************************************************************)

products == <<"Prod1", "Prod2", "Prod3", "Prod4", "Prod5", "Prod6", "Prod7">>
machines == <<"grinder", "vertDrill", "horiDrill", "borer", "planer">>
months == <<"Jan", "Feb", "Mar", "Apr", "May", "Jun">>

profit == [Prod1 |-> 10, Prod2 |-> 6, Prod3 |-> 8, Prod4 |-> 4,
           Prod5 |-> 11, Prod6 |-> 9, Prod7 |-> 3]

\* hours per unit, in fixed point (0.5 is 50); a dict per machine, in the
\* order of its keys.
time_required ==
    [grinder |-> << <<"Prod1", 50>>, <<"Prod2", 70>>, <<"Prod5", 30>>,
                    <<"Prod6", 20>>, <<"Prod7", 50>> >>,
     vertDrill |-> << <<"Prod1", 10>>, <<"Prod2", 20>>, <<"Prod4", 30>>,
                      <<"Prod6", 60>> >>,
     horiDrill |-> << <<"Prod1", 20>>, <<"Prod3", 80>>, <<"Prod7", 60>> >>,
     borer |-> << <<"Prod1", 5>>, <<"Prod2", 3>>, <<"Prod4", 7>>,
                  <<"Prod5", 10>>, <<"Prod7", 8>> >>,
     planer |-> << <<"Prod3", 1>>, <<"Prod5", 5>>, <<"Prod7", 5>> >>]

machines_down == [grinder |-> 2, vertDrill |-> 2, horiDrill |-> 3,
                  borer |-> 1, planer |-> 1]

machines_installed == [grinder |-> 4, vertDrill |-> 2, horiDrill |-> 3,
                       borer |-> 1, planer |-> 1]

month_product == Product2(months, products)

\* market limits, one row per month in the order of products
max_sales ==
    LET rows == [Jan |-> <<500, 1000, 300, 300, 800, 200, 100>>,
                 Feb |-> <<600, 500, 200, 0, 400, 300, 150>>,
                 Mar |-> <<300, 600, 0, 0, 500, 400, 100>>,
                 Apr |-> <<200, 300, 400, 500, 200, 0, 100>>,
                 May |-> <<0, 100, 500, 100, 1000, 300, 0>>,
                 Jun |-> <<500, 500, 100, 300, 1100, 500, 60>>]
    IN  [k \in {month_product[n] : n \in 1..Len(month_product)} |->
            rows[k[1]][PyIndex(products, k[2]) + 1]]

\* 0.5 in fixed point
f_inventory_holding_cost == 50
maximum_inventory == 100
inventory_target == 50
hours_per_month == 2 * 8 * 24

\* The sentinel upper bound of the variables declared without a real cap.
BigM == 1000000

(***************************************************************************)
(* factory_planning_2_ortools.py: decision variables                       *)
(***************************************************************************)

F_ManufactureVar(k) == MakeVar(0, BigM, "manuf_" \o PyStrTuple(k), FALSE)

F_InventoryVar(k) == MakeVar(0, maximum_inventory, "invt_" \o PyStrTuple(k), FALSE)

\* Mutant: the market limit is left out of the variable's bounds.
F_SoldVar_Unlimited(k) == MakeVar(0, BigM, "sold_" \o PyStrTuple(k), FALSE)

F_SoldVar(k) == MakeVar(0, max_sales[k], "sold_" \o PyStrTuple(k), FALSE)

F_RepairVar(mth, mach) ==
    MakeVar(0, machines_down[mach], "down_" \o mth \o "_" \o mach, TRUE)

F_RegManufacture ==
    /\ pc = "f_manufacture"
    /\ Register("manufacture", month_product[i], F_ManufactureVar(month_product[i]),
                Len(month_product), "f_inventory")

F_RegInventory ==
    /\ pc = "f_inventory"
    /\ Register("inventory", month_product[i], F_InventoryVar(month_product[i]),
                Len(month_product), "f_sold")

F_RegSold ==
    /\ pc = "f_sold"
    /\ Register("sold", month_product[i], F_SoldVar(month_product[i]),
                Len(month_product), "f_repair")

\* for mth in months for mach in machines
F_RepairKeys == Product2(months, machines)

F_RegRepair ==
    /\ pc = "f_repair"
    /\ Register("repair", F_RepairKeys[i],
                F_RepairVar(F_RepairKeys[i][1], F_RepairKeys[i][2]),
                Len(F_RepairKeys), "f_initial_balance")

(***************************************************************************)
(* factory_planning_2_ortools.py: constraints                              *)
(***************************************************************************)

dv_manufacture(m, p) == V(Subscript("manufacture", <<m, p>>))
dv_inventory(m, p) == V(Subscript("inventory", <<m, p>>))
dv_sold(m, p) == V(Subscript("sold", <<m, p>>))
dv_repair(m, k) == V(Subscript("repair", <<m, k>>))

\* 1. Initial balance
F_InitialBalanceCon(prd) ==
    Rel(dv_manufacture("Jan", prd), "==",
        Plus(dv_sold("Jan", prd), dv_inventory("Jan", prd)))

F_InitialBalance ==
    /\ pc = "f_initial_balance"
    /\ AddCon(F_InitialBalanceCon(products[i]), Len(products), "f_balance")

\* 2. Balance: for mth in months[1:] for prd in products
\* Mutant: the loop runs over every month, the first included.
F_BalanceLoop_AllMonths == Product2(months, products)

F_BalanceLoop == Product2(PyTail(months), products)

F_PrevMonth(mth) ==
    LET mth_index == PyIndex(months, mth)
    IN  PyGet(months, mth_index - 1)

\* Mutant: the balance is an inequality.
F_BalanceCon_AtMost(mth, prd) ==
    LET prev_mth == PyGet(months, PyIndex(months, mth) - 1)
    IN  Rel(Plus(dv_inventory(prev_mth, prd), dv_manufacture(mth, prd)), "<=",
            Plus(dv_sold(mth, prd), dv_inventory(mth, prd)))

F_BalanceCon(mth, prd) ==
    Rel(Plus(dv_inventory(F_PrevMonth(mth), prd), dv_manufacture(mth, prd)), "==",
        Plus(dv_sold(mth, prd), dv_inventory(mth, prd)))

F_Balance ==
    /\ pc = "f_balance"
    /\ AddCon(F_BalanceCon(F_BalanceLoop[i][1], F_BalanceLoop[i][2]),
              Len(F_BalanceLoop), "f_target")

\* 3. Inventory target
\* Mutant: the target is an upper limit.
F_TargetCon_AtMost(prd) == Rel(dv_inventory("Jun", prd), "<=", K(inventory_target))

F_TargetCon(prd) == Rel(dv_inventory("Jun", prd), "==", K(inventory_target))

F_Target ==
    /\ pc = "f_target"
    /\ AddCon(F_TargetCon(products[i]), Len(products), "f_capacity")

\* 4. Machine capacity: for mth in months for mach in machines
F_CapacityLoop == Product2(months, machines)

\* Mutant: the machines under maintenance are not taken off the capacity.
F_CapacityCon_IgnoresRepair(mth, mach) ==
    LET tr == time_required[mach]
    IN  Rel(SumE([n \in 1..Len(tr) |-> Times(tr[n][2], dv_manufacture(mth, tr[n][1]))]),
            "<=",
            Times(hours_per_month * Scale, K(machines_installed[mach])))

F_CapacityCon(mth, mach) ==
    LET tr == time_required[mach]
    IN  Rel(SumE([n \in 1..Len(tr) |-> Times(tr[n][2], dv_manufacture(mth, tr[n][1]))]),
            "<=",
            Times(hours_per_month * Scale,
                  Minus(K(machines_installed[mach]), dv_repair(mth, mach))))

F_Capacity ==
    /\ pc = "f_capacity"
    /\ AddCon(F_CapacityCon(F_CapacityLoop[i][1], F_CapacityLoop[i][2]),
              Len(F_CapacityLoop), "f_downtime")

\* 5. Downtime requirement
\* Mutant: the downtime requirement is an upper limit.
F_DowntimeCon_AtMost(mach) ==
    Rel(SumE([n \in 1..Len(months) |-> dv_repair(months[n], mach)]), "<=",
        K(machines_down[mach]))

F_DowntimeCon(mach) ==
    Rel(SumE([n \in 1..Len(months) |-> dv_repair(months[n], mach)]), "==",
        K(machines_down[mach]))

F_Downtime ==
    /\ pc = "f_downtime"
    /\ AddCon(F_DowntimeCon(machines[i]), Len(machines), "f_objective")

\* Objective function
F_ObjFunc ==
    Minus(SumE([n \in 1..Len(month_product) |->
                   Times(profit[month_product[n][2]] * Scale,
                         dv_sold(month_product[n][1], month_product[n][2]))]),
          SumE([n \in 1..Len(month_product) |->
                   Times(f_inventory_holding_cost,
                         dv_inventory(month_product[n][1], month_product[n][2]))]))

F_Maximize ==
    /\ pc = "f_objective"
    /\ SetObjective(F_ObjFunc, "max", "solve")

(***************************************************************************)
(* food_manufacture_1_ortools.py: data                                     *)
(***************************************************************************)

oils == <<"VEG1", "VEG2", "OIL1", "OIL2", "OIL3">>

month_oil == Product2(months, oils)

\* purchase cost, one row per month in the order of oils
cost ==
    LET rows == [Jan |-> <<110, 120, 130, 110, 115>>,
                 Feb |-> <<130, 130, 110, 90, 115>>,
                 Mar |-> <<110, 140, 130, 100, 95>>,
                 Apr |-> <<120, 110, 120, 120, 125>>,
                 May |-> <<100, 120, 150, 110, 105>>,
                 Jun |-> <<90, 100, 140, 80, 135>>]
    IN  [k \in {month_oil[n] : n \in 1..Len(month_oil)} |->
            rows[k[1]][PyIndex(oils, k[2]) + 1]]

\* hardness in fixed point (8.8 is 880)
hardness == [VEG1 |-> 880, VEG2 |-> 610, OIL1 |-> 200, OIL2 |-> 420, OIL3 |-> 500]

price == 150
init_store_inventory == 500
target_store_inventory == 500
veg_upper_cap == 200
oil_upper_cap == 250
min_hardness == 3
max_hardness == 6
o_inventory_holding_cost == 5

veg_oils == <<"VEG1", "VEG2">>
non_veg_oils == <<"OIL1", "OIL2", "OIL3">>

(***************************************************************************)
(* food_manufacture_1_ortools.py: decision variables                       *)
(***************************************************************************)

O_ProdVar(mth) == MakeVar(0, BigM, "prod_month_" \o mth, FALSE)

O_OilBuyVar(k) == MakeVar(0, BigM, "buy_oil_" \o PyStrTuple(k), FALSE)

O_OilConsumeVar(k) == MakeVar(0, BigM, "consume_oil_" \o PyStrTuple(k), FALSE)

O_OilInventoryVar(k) == MakeVar(0, BigM, "invt_oil_" \o PyStrTuple(k), FALSE)

O_RegProd ==
    /\ pc = "o_prod"
    /\ Register("prod", months[i], O_ProdVar(months[i]), Len(months), "o_oil_buy")

O_RegOilBuy ==
    /\ pc = "o_oil_buy"
    /\ Register("oil_buy", month_oil[i], O_OilBuyVar(month_oil[i]),
                Len(month_oil), "o_oil_consume")

O_RegOilConsume ==
    /\ pc = "o_oil_consume"
    /\ Register("oil_consume", month_oil[i], O_OilConsumeVar(month_oil[i]),
                Len(month_oil), "o_oil_inventory")

O_RegOilInventory ==
    /\ pc = "o_oil_inventory"
    /\ Register("oil_inventory", month_oil[i], O_OilInventoryVar(month_oil[i]),
                Len(month_oil), "o_balance_jan")

(***************************************************************************)
(* food_manufacture_1_ortools.py: constraints                              *)
(***************************************************************************)

dv_prod(m) == V(Subscript("prod", m))
dv_oil_buy(m, o) == V(Subscript("oil_buy", <<m, o>>))
dv_oil_consume(m, o) == V(Subscript("oil_consume", <<m, o>>))
dv_oil_inventory(m, o) == V(Subscript("oil_inventory", <<m, o>>))

\* 1. Balance constraint for January
O_BalanceJanCon(ol) ==
    Rel(Plus(K(init_store_inventory), dv_oil_buy("Jan", ol)), "==",
        Plus(dv_oil_consume("Jan", ol), dv_oil_inventory("Jan", ol)))

O_BalanceJan ==
    /\ pc = "o_balance_jan"
    /\ AddCon(O_BalanceJanCon(oils[i]), Len(oils), "o_balance")

\* 2. Balance constraint for subsequent months: for mth in months[1:] for ol in oils
O_BalanceLoop == Product2(PyTail(months), oils)

O_PrevMonth(mth) ==
    LET mth_index == PyIndex(months, mth)
    IN  PyGet(months, mth_index - 1)

O_BalanceCon(mth, ol) ==
    Rel(Plus(dv_oil_inventory(O_PrevMonth(mth), ol), dv_oil_buy(mth, ol)), "==",
        Plus(dv_oil_consume(mth, ol), dv_oil_inventory(mth, ol)))

O_Balance ==
    /\ pc = "o_balance"
    /\ AddCon(O_BalanceCon(O_BalanceLoop[i][1], O_BalanceLoop[i][2]),
              Len(O_BalanceLoop), "o_target")

\* 3. End of month inventory target
O_TargetCon(ol) == Rel(dv_oil_inventory("Jun", ol), "==", K(target_store_inventory))

O_Target ==
    /\ pc = "o_target"
    /\ AddCon(O_TargetCon(oils[i]), Len(oils), "o_capacity")

\* 4. Refinement capacity
O_VegCapCon(mth) ==
    Rel(SumE([n \in 1..Len(veg_oils) |-> dv_oil_consume(mth, veg_oils[n])]), "<=",
        K(veg_upper_cap))

O_OilCapCon(mth) ==
    Rel(SumE([n \in 1..Len(non_veg_oils) |-> dv_oil_consume(mth, non_veg_oils[n])]),
        "<=", K(oil_upper_cap))

O_Capacity ==
    /\ pc = "o_capacity"
    /\ AddCon2(O_VegCapCon(months[i]), O_OilCapCon(months[i]), Len(months), "o_hardness")

\* 5. Hardness tolerances
O_HardnessSum(mth) ==
    SumE([n \in 1..Len(oils) |-> Times(hardness[oils[n]], dv_oil_consume(mth, oils[n]))])

O_MinHardnessCon(mth) ==
    Rel(O_HardnessSum(mth), ">=", Times(min_hardness * Scale, dv_prod(mth)))

O_MaxHardnessCon(mth) ==
    Rel(O_HardnessSum(mth), "<=", Times(max_hardness * Scale, dv_prod(mth)))

O_Hardness ==
    /\ pc = "o_hardness"
    /\ AddCon2(O_MinHardnessCon(months[i]), O_MaxHardnessCon(months[i]),
               Len(months), "o_blend")

\* 6. Oil consumed equals food produced
\* Mutant: the oil refined is only limited by the food produced.
O_BlendCon_AtMost(mth) ==
    Rel(SumE([n \in 1..Len(oils) |-> dv_oil_consume(mth, oils[n])]), "<=", dv_prod(mth))

O_BlendCon(mth) ==
    Rel(SumE([n \in 1..Len(oils) |-> dv_oil_consume(mth, oils[n])]), "==", dv_prod(mth))

O_Blend ==
    /\ pc = "o_blend"
    /\ AddCon(O_BlendCon(months[i]), Len(months), "o_objective")

\* Objective function
O_ObjFunc ==
    Minus(Minus(SumE([n \in 1..Len(months) |-> Times(price * Scale, dv_prod(months[n]))]),
                SumE([n \in 1..Len(month_oil) |->
                         Times(cost[month_oil[n]] * Scale,
                               dv_oil_buy(month_oil[n][1], month_oil[n][2]))])),
          SumE([n \in 1..Len(month_oil) |->
                   Times(o_inventory_holding_cost * Scale,
                         dv_oil_inventory(month_oil[n][1], month_oil[n][2]))]))

O_Maximize ==
    /\ pc = "o_objective"
    /\ SetObjective(O_ObjFunc, "max", "solve")

(***************************************************************************)
(* manpower_planning_ortools.py: data                                      *)
(***************************************************************************)

years == <<1, 2, 3>>
skills == <<"s1", "s2", "s3">>

current_workforce == [s1 |-> 2000, s2 |-> 1500, s3 |-> 1000]

year_skill == Product2(years, skills)

\* one row per year in the order of skills
demand ==
    LET rows == <<<<1000, 1400, 1000>>, <<500, 2000, 1500>>, <<0, 2500, 2000>>>>
    IN  [k \in {year_skill[n] : n \in 1..Len(year_skill)} |->
            rows[k[1]][PyIndex(skills, k[2]) + 1]]

max_hiring ==
    LET rows == <<<<500, 800, 500>>, <<500, 800, 500>>, <<500, 800, 500>>>>
    IN  [k \in {year_skill[n] : n \in 1..Len(year_skill)} |->
            rows[k[1]][PyIndex(skills, k[2]) + 1]]

\* rates in fixed point (0.25 is 25)
new_hire_attrition == [s1 |-> 25, s2 |-> 20, s3 |-> 10]
experienced_attrition == [s1 |-> 10, s2 |-> 5, s3 |-> 5]
downgrade_skill_attrition == 50
max_overmanning == 150
max_parttime == 50
parttime_cap == 50
max_train_unskilled == 200
max_train_semiskilled == 25

\* a < b on the skill names: Python compares strings lexicographically.
PyStrLess(a, b) == PyIndex(<<"s1", "s2", "s3">>, a) < PyIndex(<<"s1", "s2", "s3">>, b)

(***************************************************************************)
(* manpower_planning_ortools.py: decision variables                        *)
(***************************************************************************)

M_HireVar(k) == MakeVar(0, max_hiring[k], "hire_" \o PyStrTupleIS(k), FALSE)

M_PartTimeVar(k) == MakeVar(0, max_parttime, "part_time_" \o PyStrTupleIS(k), FALSE)

M_WorkforceVar(k) == MakeVar(0, BigM, "workforce_" \o PyStrTupleIS(k), FALSE)

M_LayoffVar(k) == MakeVar(0, BigM, "layoff_" \o PyStrTupleIS(k), FALSE)

M_ExcessVar(k) == MakeVar(0, BigM, "excess_" \o PyStrTupleIS(k), FALSE)

year_skill_skill == Product3(years, skills, skills)

M_TrainVar(k) == MakeVar(0, BigM, "train_" \o PyStrTupleISS(k), FALSE)

M_RegHire ==
    /\ pc = "m_hire"
    /\ Register("hire", year_skill[i], M_HireVar(year_skill[i]),
                Len(year_skill), "m_part_time")

M_RegPartTime ==
    /\ pc = "m_part_time"
    /\ Register("part_time", year_skill[i], M_PartTimeVar(year_skill[i]),
                Len(year_skill), "m_workforce")

M_RegWorkforce ==
    /\ pc = "m_workforce"
    /\ Register("workforce", year_skill[i], M_WorkforceVar(year_skill[i]),
                Len(year_skill), "m_layoff")

M_RegLayoff ==
    /\ pc = "m_layoff"
    /\ Register("layoff", year_skill[i], M_LayoffVar(year_skill[i]),
                Len(year_skill), "m_excess")

M_RegExcess ==
    /\ pc = "m_excess"
    /\ Register("excess", year_skill[i], M_ExcessVar(year_skill[i]),
                Len(year_skill), "m_train")

M_RegTrain ==
    /\ pc = "m_train"
    /\ Register("train", year_skill_skill[i], M_TrainVar(year_skill_skill[i]),
                Len(year_skill_skill), "m_initial_balance")

(***************************************************************************)
(* manpower_planning_ortools.py: constraints                               *)
(***************************************************************************)

dv_hire(t, s) == V(Subscript("hire", <<t, s>>))
dv_part_time(t, s) == V(Subscript("part_time", <<t, s>>))
dv_workforce(t, s) == V(Subscript("workforce", <<t, s>>))
dv_layoff(t, s) == V(Subscript("layoff", <<t, s>>))
dv_excess(t, s) == V(Subscript("excess", <<t, s>>))
dv_train(t, s, s2) == V(Subscript("train", <<t, s, s2>>))

\* model.Sum(... for s2 in skills if s2 < s): retraining from lower skills
M_TrainFromLower(t, s) ==
    LET sel == SelectSeq(skills, LAMBDA s2 : PyStrLess(s2, s))
    IN  SumE([n \in 1..Len(sel) |->
                Minus(Times(Scale - experienced_attrition[s], dv_train(t, sel[n], s)),
                      dv_train(t, s, sel[n]))])

\* model.Sum(... for s2 in skills if s2 > s): downgrading from higher skills
M_TrainFromHigher(t, s) ==
    LET sel == SelectSeq(skills, LAMBDA s2 : PyStrLess(s, s2))
    IN  SumE([n \in 1..Len(sel) |->
                Minus(Times(Scale - downgrade_skill_attrition, dv_train(t, sel[n], s)),
                      dv_train(t, s, sel[n]))])

\* 1. Initial workforce balance, year == 1
M_InitialBalanceCon(s) ==
    Rel(dv_workforce(1, s), "==",
        Minus(Plus(Plus(Plus(Times(Scale - experienced_attrition[s],
                                   K(current_workforce[s])),
                             Times(Scale - new_hire_attrition[s], dv_hire(1, s))),
                        M_TrainFromLower(1, s)),
                   M_TrainFromHigher(1, s)),
              dv_layoff(1, s)))

M_InitialBalance ==
    /\ pc = "m_initial_balance"
    /\ AddCon(M_InitialBalanceCon(skills[i]), Len(skills), "m_balance")

\* 2. Subsequent workforce balance: for t in years[1:] for s in skills
\* Mutant: the loop runs over every year, the first included, so that the
\* balance of year 1 looks up the workforce of year 0.
M_BalanceLoop_AllYears == Product2(years, skills)

M_BalanceLoop == Product2(PyTail(years), skills)

M_BalanceCon(t, s) ==
    Rel(dv_workforce(t, s), "==",
        Minus(Plus(Plus(Plus(Times(Scale - experienced_attrition[s],
                                   dv_workforce(t - 1, s)),
                             Times(Scale - new_hire_attrition[s], dv_hire(t, s))),
                        M_TrainFromLower(t, s)),
                   M_TrainFromHigher(t, s)),
              dv_layoff(t, s)))

M_Balance ==
    /\ pc = "m_balance"
    /\ AddCon(M_BalanceCon(M_BalanceLoop[i][1], M_BalanceLoop[i][2]),
              Len(M_BalanceLoop), "m_unskilled")

\* 3. Unskilled training
M_UnskilledCapCon(t) == Rel(dv_train(t, "s1", "s2"), "<=", K(max_train_unskilled))

\* Mutant: unskilled to skilled retraining is capped like unskilled to
\* semi-skilled retraining.
M_UnskilledZeroCon_Capped(t) ==
    Rel(dv_train(t, "s1", "s3"), "<=", K(max_train_unskilled))

M_UnskilledZeroCon(t) == Rel(dv_train(t, "s1", "s3"), "==", K(0))

M_Unskilled ==
    /\ pc = "m_unskilled"
    /\ AddCon2(M_UnskilledCapCon(years[i]), M_UnskilledZeroCon(years[i]),
               Len(years), "m_semiskilled")

\* 4. Semi-skilled training
M_SemiskilledCon(t) ==
    Rel(dv_train(t, "s2", "s3"), "<=",
        Times(max_train_semiskilled, dv_workforce(t, "s3")))

M_Semiskilled ==
    /\ pc = "m_semiskilled"
    /\ AddCon(M_SemiskilledCon(years[i]), Len(years), "m_overmanning")

\* 5. Overmanning
M_OvermanningCon(t) ==
    Rel(SumE([n \in 1..Len(skills) |-> dv_excess(t, skills[n])]), "<=",
        K(max_overmanning))

M_Overmanning ==
    /\ pc = "m_overmanning"
    /\ AddCon(M_OvermanningCon(years[i]), Len(years), "m_demand")

\* 6. Demand: for t in years for s in skills
M_DemandCon(t, s) ==
    Rel(dv_workforce(t, s), "==",
        Plus(Plus(K(demand[<<t, s>>]), dv_excess(t, s)),
             Times(parttime_cap, dv_part_time(t, s))))

M_Demand ==
    /\ pc = "m_demand"
    /\ AddCon(M_DemandCon(year_skill[i][1], year_skill[i][2]),
              Len(year_skill), "m_objective")

\* Objective function 1: total layoffs
M_ObjLayoffs ==
    SumE([n \in 1..Len(year_skill) |-> dv_layoff(year_skill[n][1], year_skill[n][2])])

M_Minimize ==
    /\ pc = "m_objective"
    /\ SetObjective(M_ObjLayoffs, "min", "solve")

(***************************************************************************)
(* model.Solve(): the external solver                                      *)
(*                                                                         *)
(* Solve returns one of the result statuses of pywraplp.  With OPTIMAL the *)
(* solver holds an assignment that satisfies every registered constraint,  *)
(* every variable's bounds and integrality.  Which one it is, is left      *)
(* open (optimality is not modelled, so every feasible assignment of the   *)
(* enumerated set is a possible return).  The enumerated set is the grid   *)
(* neighbourhood of a few base points: at most two coordinates changed by  *)
(* at most MaxDelta grid steps each.                                       *)
(***************************************************************************)

Statuses == {"OPTIMAL", "FEASIBLE", "INFEASIBLE", "UNBOUNDED", "ABNORMAL",
             "MODEL_INVALID", "NOT_SOLVED"}

Handles == 1..Len(variables)

VarOK(h, a) ==
    /\ variables[h].lb * VDen <= a[h]
    /\ a[h] <= variables[h].ub * VDen
    /\ variables[h].integer => a[h] % VDen = 0

Feasible(a) ==
    /\ \A n \in 1..Len(constraints) : Sat(constraints[n], a)
    /\ \A h \in Handles : VarOK(h, a)

\* The constraints in which variable h occurs.
Mentions(c, h) ==
    \/ \E n \in 1..Len(c.lhs.terms) : c.lhs.terms[n][2] = h
    \/ \E n \in 1..Len(c.rhs.terms) : c.rhs.terms[n][2] = h

\* The dict family and key under which handle h is registered.
KeyOf(h) ==
    CHOOSE fk \in UNION {{<<f, k>> : k \in DOMAIN dv[f]} : f \in Families} :
        dv[fk[1]][fk[2]] = h

\* Base points of the factory model, in whole units.
F_Base(b, f, k) ==
    IF b = 1
    THEN CASE f = "manufacture" -> IF k[1] = "Jan" THEN 0 ELSE 10
           [] f = "inventory" -> 10 * PyIndex(months, k[1])
           [] f = "sold" -> 0
           [] f = "repair" -> IF k[1] = "Jan" THEN machines_down[k[2]] ELSE 0
    ELSE CASE f = "manufacture" ->
                IF k[1] = "Jan" THEN 30 ELSE IF k[1] = "May" THEN 50 ELSE 0
           [] f = "inventory" -> IF k[1] \in {"May", "Jun"} THEN 50 ELSE 0
           [] f = "sold" -> IF k[1] = "Jan" THEN 30 ELSE 0
           [] f = "repair" -> IF k[1] = "Jun" THEN machines_down[k[2]] ELSE 0

\* Base points of the food model, in tons: (1) nothing bought or refined;
\* (2) 100 of VEG1 and 70 of OIL1 bought and refined every month; (3) 200 of
\* VEG2 and 250 of OIL1 refined from the store in January and bought back in
\* February; (4) as (3) with 210 of VEG2.
O_Base(b, f, k) ==
    CASE b = 1 -> IF f = "oil_inventory" THEN 500 ELSE 0
      [] b = 2 ->
           CASE f = "prod" -> 170
             [] f = "oil_inventory" -> 500
             [] OTHER -> IF k[2] = "VEG1" THEN 100
                         ELSE IF k[2] = "OIL1" THEN 70 ELSE 0
      [] OTHER ->
           LET veg == IF b = 3 THEN 200 ELSE 210
               used(o) == IF o = "VEG2" THEN veg ELSE IF o = "OIL1" THEN 250 ELSE 0
           IN  CASE f = "prod" -> IF k = "Jan" THEN veg + 250 ELSE 0
                 [] f = "oil_consume" -> IF k[1] = "Jan" THEN used(k[2]) ELSE 0
                 [] f = "oil_buy" -> IF k[1] = "Feb" THEN used(k[2]) ELSE 0
                 [] f = "oil_inventory" ->
                      IF k[1] = "Jan" THEN 500 - used(k[2]) ELSE 500

\* Base points of the manpower model: a plan as a sparse table over a
\* default of 0; the second and third plans differ from the first in year 1.
M_Plan1 ==
    (<<"hire", <<1, "s3">> >> :> 100) @@ (<<"hire", <<2, "s2">> >> :> 800) @@
    (<<"hire", <<2, "s3">> >> :> 500) @@ (<<"hire", <<3, "s2">> >> :> 800) @@
    (<<"hire", <<3, "s3">> >> :> 500) @@
    (<<"train", <<2, "s1", "s2">> >> :> 200) @@ (<<"train", <<2, "s2", "s3">> >> :> 100) @@
    (<<"train", <<3, "s1", "s2">> >> :> 40) @@ (<<"train", <<3, "s2", "s3">> >> :> 120) @@
    (<<"layoff", <<1, "s1">> >> :> 800) @@ (<<"layoff", <<1, "s2">> >> :> 25) @@
    (<<"layoff", <<2, "s1">> >> :> 200) @@ (<<"layoff", <<2, "s3">> >> :> 13) @@
    (<<"layoff", <<3, "s1">> >> :> 410) @@
    (<<"workforce", <<1, "s1">> >> :> 1000) @@ (<<"workforce", <<1, "s2">> >> :> 1400) @@
    (<<"workforce", <<1, "s3">> >> :> 1040) @@ (<<"workforce", <<2, "s1">> >> :> 500) @@
    (<<"workforce", <<2, "s2">> >> :> 2060) @@ (<<"workforce", <<2, "s3">> >> :> 1520) @@
    (<<"workforce", <<3, "s2">> >> :> 2515) @@ (<<"workforce", <<3, "s3">> >> :> 2008) @@
    (<<"excess", <<1, "s3">> >> :> 40) @@ (<<"excess", <<2, "s2">> >> :> 60) @@
    (<<"excess", <<2, "s3">> >> :> 20) @@ (<<"excess", <<3, "s2">> >> :> 15) @@
    (<<"excess", <<3, "s3">> >> :> 8)

M_Base(b, f, k) ==
    LET plan2 ==
            (<<"train", <<1, "s1", "s2">> >> :> 200) @@ (<<"layoff", <<1, "s1">> >> :> 600) @@
            (<<"layoff", <<1, "s2">> >> :> 135) @@ (<<"workforce", <<1, "s2">> >> :> 1480) @@
            (<<"excess", <<1, "s2">> >> :> 55) @@ (<<"part_time", <<1, "s2">> >> :> 50) @@
            (<<"layoff", <<2, "s2">> >> :> 76) @@ M_Plan1
        plan3 ==
            (<<"train", <<1, "s1", "s3">> >> :> 20) @@ (<<"layoff", <<1, "s1">> >> :> 780) @@
            (<<"layoff", <<1, "s3">> >> :> 19) @@ M_Plan1
        plan == CASE b = 1 -> M_Plan1 [] b = 2 -> plan2 [] OTHER -> plan3
    IN  IF <<f, k>> \in DOMAIN plan THEN plan[<<f, k>>] ELSE 0

Bases ==
    CASE prog = "factory" -> {1, 2}
      [] prog = "food" -> {1, 2, 3, 4}
      [] prog = "manpower" -> {1, 2, 3}

BaseValue(b, f, k) ==
    CASE prog = "factory" -> F_Base(b, f, k)
      [] prog = "food" -> O_Base(b, f, k)
      [] prog = "manpower" -> M_Base(b, f, k)

BaseAssignment(b) ==
    [h \in Handles |-> LET fk == KeyOf(h) IN BaseValue(b, fk[1], fk[2]) * VDen]

\* The moves: one coordinate changed (m[3] = 0), or two distinct
\* coordinates m[1] < m[1] + m[3] changed.
Singles == Handles \X ((-MaxDelta)..MaxDelta) \X {0} \X {0}

Pairs ==
    LET steps == ((-MaxDelta)..MaxDelta) \ {0}
    IN  Handles \X steps \X (1..(Len(variables) - 1)) \X steps

\* A move changes coordinate m[1] by m[2] and coordinate m[1] + m[3] by m[4]
\* grid steps.
Apply(base, m) == [base EXCEPT ![m[1]] = @ + m[2], ![m[1] + m[3]] = @ + m[4]]

\* The assignments Solve may return with status OPTIMAL.  The conjuncts on
\* the changed coordinates and on the constraints that mention them are
\* implied by Feasible; they only discard most candidates early.
GoodMove(base, touch, m) ==
    /\ m[1] + m[3] <= Len(variables)
    /\ LET c == Apply(base, m)
       IN  /\ VarOK(m[1], c) /\ VarOK(m[1] + m[3], c)
           /\ \A n \in touch[m[1]] \cup touch[m[1] + m[3]] : Sat(constraints[n], c)
           /\ Feasible(c)

Returnable ==
    UNION {
        LET base == BaseAssignment(b) @@ << >>
            touch == [h \in Handles |->
                        {n \in 1..Len(constraints) : Mentions(constraints[n], h)}]
                     @@ << >>
        IN  {Apply(base, m) : m \in {x \in Singles : GoodMove(base, touch, x)}}
            \cup {Apply(base, m) : m \in {x \in Pairs : GoodMove(base, touch, x)}}
        : b \in Bases}

\* status = model.Solve()
Solve ==
    /\ pc = "solve"
    /\ solveCalls' = solveCalls + 1
    /\ \E st \in Statuses :
         /\ status' = st
         /\ IF st = "OPTIMAL"
            THEN solution' \in Returnable
            ELSE solution' = << >>
    /\ pc' = "report_status"
    /\ UNCHANGED <<prog, i, variables, constraints, objective, objSets, dv,
                   objReads, output>>

(***************************************************************************)
(* Report (the same statements in the three scripts)                       *)
(***************************************************************************)

\* model.Objective().Value(), multiplied by Scale * VDen.
ObjectiveValue == Eval(objective.expr, solution)

\* Mutant: the status test calls Solve a second time.
ReportStatus_SolvesAgain ==
    /\ pc = "report_status"
    /\ IF status = "OPTIMAL"
       THEN /\ output' = output \o << <<"Solution:">>, <<"Objective value =", ObjectiveValue>> >>
            /\ objReads' = objReads + 1
       ELSE /\ output' = Append(output, <<"The problem does not have an optimal solution.">>)
            /\ objReads' = objReads
    /\ solveCalls' = solveCalls + 1
    /\ pc' = "report_size"
    /\ UNCHANGED <<prog, i, variables, constraints, objective, objSets, dv,
                   status, solution>>

\* Mutant: the header is printed whatever the status.
ReportStatus_AlwaysHeader ==
    /\ pc = "report_status"
    /\ IF status = "OPTIMAL"
       THEN /\ output' = output \o << <<"Solution:">>, <<"Objective value =", ObjectiveValue>> >>
            /\ objReads' = objReads + 1
       ELSE /\ output' = output \o << <<"Solution:">>,
                                      <<"The problem does not have an optimal solution.">> >>
            /\ objReads' = objReads
    /\ pc' = "report_size"
    /\ UNCHANGED <<prog, i, variables, constraints, objective, objSets, dv,
                   solveCalls, status, solution>>

\* if status == OPTIMAL: print header and objective value  else: print message
ReportStatus ==
    /\ pc = "report_status"
    /\ IF status = "OPTIMAL"
       THEN /\ output' = output \o << <<"Solution:">>, <<"Objective value =", ObjectiveValue>> >>
            /\ objReads' = objReads + 1
       ELSE /\ output' = Append(output, <<"The problem does not have an optimal solution.">>)
            /\ objReads' = objReads
    /\ pc' = "report_size"
    /\ UNCHANGED <<prog, i, variables, constraints, objective, objSets, dv,
                   solveCalls, status, solution>>

\* print("Problem size:") and the two counts
ReportSize ==
    /\ pc = "report_size"
    /\ output' = output \o << <<"\n">>, <<"Problem size:">>,
                             <<"Number of decision variables =", Len(variables)>>,
                             <<"Number of constraints =", Len(constraints)>> >>
    /\ pc' = "report_advanced"
    /\ UNCHANGED <<prog, i, variables, constraints, objective, objSets, dv,
                   solveCalls, status, solution, objReads>>

\* print("Advanced usage:"), wall time, iterations and, in the factory
\* script only, branch-and-bound nodes
ReportAdvanced ==
    /\ pc = "report_advanced"
    /\ output' = output \o << <<"\n">>, <<"Advanced usage:">>,
                             <<"Problem solved in %s seconds", "wall_time">>,
                             <<"Problem solved in %s iterations", "iterations">> >>
                        \o (IF prog = "factory"
                            THEN << <<"Problem solved in %d branch-and-bound nodes",
                                      "nodes">> >>
                            ELSE << >>)
    /\ pc' = "done"
    /\ UNCHANGED <<prog, i, variables, constraints, objective, objSets, dv,
                   solveCalls, status, solution, objReads>>

Next ==
    \/ F_RegManufacture
    \/ F_RegInventory
    \/ F_RegSold
    \/ F_RegRepair
    \/ F_InitialBalance
    \/ F_Balance
    \/ F_Target
    \/ F_Capacity
    \/ F_Downtime
    \/ F_Maximize
    \/ O_RegProd
    \/ O_RegOilBuy
    \/ O_RegOilConsume
    \/ O_RegOilInventory
    \/ O_BalanceJan
    \/ O_Balance
    \/ O_Target
    \/ O_Capacity
    \/ O_Hardness
    \/ O_Blend
    \/ O_Maximize
    \/ M_RegHire
    \/ M_RegPartTime
    \/ M_RegWorkforce
    \/ M_RegLayoff
    \/ M_RegExcess
    \/ M_RegTrain
    \/ M_InitialBalance
    \/ M_Balance
    \/ M_Unskilled
    \/ M_Semiskilled
    \/ M_Overmanning
    \/ M_Demand
    \/ M_Minimize
    \/ Solve
    \/ ReportStatus
    \/ ReportSize
    \/ ReportAdvanced

Spec == Init /\ [][Next]_vars

(***************************************************************************)
(* Properties                                                              *)
(***************************************************************************)

\* The solver holds a solution: Solve has returned OPTIMAL.
Solved == solveCalls >= 1 /\ status = "OPTIMAL"

\* The solved value of the variable registered under key k of family f, in
\* 1/VDen units.
Val(f, k) == solution[dv[f][k]]

ReportBlocks == {"report_status", "report_size", "report_advanced"}

StatusReported == pc \in {"report_size", "report_advanced", "done"}

RECURSIVE SumOver(_, _)
\* The sum of f(x) over the elements x of the sequence xs.
SumOver(f(_), xs) ==
    IF Len(xs) = 0 THEN 0 ELSE f(xs[1]) + SumOver(f, Tail(xs))

\* C1: a run registers all variables, then adds all constraints, then sets
\* the objective exactly once, then calls Solve exactly once, then reports;
\* after Solve no variable or constraint is added, the objective is not
\* changed and Solve is not called again.
C1_BuildSolveReportOrder ==
    /\ [][/\ variables' # variables =>
                constraints = << >> /\ objSets = 0 /\ solveCalls = 0 /\ output = << >>
          /\ constraints' # constraints =>
                objSets = 0 /\ solveCalls = 0 /\ output = << >>
          /\ (objSets' # objSets \/ objective' # objective) =>
                objSets = 0 /\ objSets' = 1 /\ solveCalls = 0 /\ output = << >>
          /\ solveCalls' # solveCalls =>
                solveCalls = 0 /\ solveCalls' = 1 /\ objSets = 1 /\ output = << >>
          /\ output' # output => solveCalls = 1
          /\ solveCalls >= 1 =>
                /\ variables' = variables
                /\ constraints' = constraints
                /\ objective' = objective
                /\ objSets' = objSets
                /\ solveCalls' = solveCalls]_vars
    /\ [](pc = "done" => objSets = 1 /\ solveCalls = 1 /\ output # << >>)

C1_Witness ==
    /\ pc = "done"
    /\ solveCalls = 1
    /\ objSets = 1
    /\ variables # << >>
    /\ constraints # << >>
    /\ output # << >>

NotOptimalMessage == <<"The problem does not have an optimal solution.">>

SizeLines ==
    << <<"\n">>, <<"Problem size:">>,
      <<"Number of decision variables =", Len(variables)>>,
      <<"Number of constraints =", Len(constraints)>> >>

AdvancedLines ==
    << <<"\n">>, <<"Advanced usage:">>,
      <<"Problem solved in %s seconds", "wall_time">>,
      <<"Problem solved in %s iterations", "iterations">> >>
    \o (IF prog = "factory"
        THEN << <<"Problem solved in %d branch-and-bound nodes", "nodes">> >>
        ELSE << >>)

\* What the status branch prints: the header and the objective value, or the
\* fixed message.
StatusLines ==
    IF status = "OPTIMAL"
    THEN << <<"Solution:">>, <<"Objective value =", Eval(objective.expr, solution)>> >>
    ELSE <<NotOptimalMessage>>

\* C2: for every status Solve returns, OPTIMAL prints the header and the
\* objective value, any other status prints the fixed message and does not
\* read the objective value; exactly one of the two is printed; in both cases
\* the run goes on to print the variable count, the constraint count, the wall
\* time and the iteration count (and the node count in the factory program
\* only).
C2_StatusReport ==
    /\ StatusReported =>
          /\ status \in Statuses
          /\ SubSeq(output, 1, Len(StatusLines)) = StatusLines
          /\ objReads = (IF status = "OPTIMAL" THEN 1 ELSE 0)
          /\ \A n \in 1..Len(output) :
                /\ status = "OPTIMAL" => output[n] # NotOptimalMessage
                /\ status # "OPTIMAL" =>
                      output[n][1] # "Solution:" /\ output[n][1] # "Objective value ="
    /\ pc \in ReportBlocks => ENABLED Next
    /\ pc = "done" => output = StatusLines \o SizeLines \o AdvancedLines

C2_Witness ==
    /\ pc = "done"
    /\ status = "INFEASIBLE"
    /\ output[1] = NotOptimalMessage
    /\ Len(output) >= 9

Range(xs) == {xs[n] : n \in 1..Len(xs)}

\* The element just before x in the ordered list xs (x is not the first).
Before(xs, x) == xs[(CHOOSE n \in 2..Len(xs) : xs[n] = x) - 1]

LaterPeriods(xs) == {xs[n] : n \in 2..Len(xs)}

\* Factory and food: carried(t-1) + inflow(t) - outflow(t) - carried(t) = 0.
FactoryBalanceHolds ==
    \A m \in LaterPeriods(months) : \A p \in Range(products) :
        Val("inventory", <<Before(months, m), p>>) + Val("manufacture", <<m, p>>)
        - Val("sold", <<m, p>>) - Val("inventory", <<m, p>>) = 0

FoodBalanceHolds ==
    \A m \in LaterPeriods(months) : \A o \in Range(oils) :
        Val("oil_inventory", <<Before(months, m), o>>) + Val("oil_buy", <<m, o>>)
        - Val("oil_consume", <<m, o>>) - Val("oil_inventory", <<m, o>>) = 0

OtherSkills(s) == SelectSeq(skills, LAMBDA x : x # s)
LowerSkills(s) == SelectSeq(skills, LAMBDA x : PyIndex(skills, x) < PyIndex(skills, s))
HigherSkills(s) == SelectSeq(skills, LAMBDA x : PyIndex(skills, x) > PyIndex(skills, s))

\* Manpower, every quantity taken at face value.
ManpowerBalanceUnweighted ==
    \A t \in LaterPeriods(years) : \A s \in Range(skills) :
        LET in(x) == Val("train", <<t, x, s>>)
            out(x) == Val("train", <<t, s, x>>)
        IN  Val("workforce", <<t - 1, s>>) + Val("hire", <<t, s>>)
            + SumOver(in, OtherSkills(s)) - SumOver(out, OtherSkills(s))
            - Val("layoff", <<t, s>>) - Val("workforce", <<t, s>>) = 0

\* Manpower, with the prior workforce, the hires and the transfers in
\* weighted by their retention rates (in hundredths).
ManpowerBalanceWeighted ==
    \A t \in LaterPeriods(years) : \A s \in Range(skills) :
        LET up(x) == (100 - experienced_attrition[s]) * Val("train", <<t, x, s>>)
            down(x) == (100 - downgrade_skill_attrition) * Val("train", <<t, x, s>>)
            out(x) == 100 * Val("train", <<t, s, x>>)
        IN  (100 - experienced_attrition[s]) * Val("workforce", <<t - 1, s>>)
            + (100 - new_hire_attrition[s]) * Val("hire", <<t, s>>)
            + SumOver(up, LowerSkills(s)) + SumOver(down, HigherSkills(s))
            - SumOver(out, OtherSkills(s))
            - 100 * Val("layoff", <<t, s>>) - 100 * Val("workforce", <<t, s>>) = 0

\* C3 as stated: in every solution, for every period after the first and
\* every product, oil and skill, prior carried quantity + inflow - outflow
\* - carried quantity = 0, the quantities taken at face value.
C3_BalanceAtFaceValue ==
    Solved =>
        CASE prog = "factory" -> FactoryBalanceHolds
          [] prog = "food" -> FoodBalanceHolds
          [] prog = "manpower" -> ManpowerBalanceUnweighted

\* C3 as amended: the same for products and oils; for skills the balance
\* holds with the prior workforce, the hires and the transfers in multiplied
\* by their retention rates (1 - attrition).
C3_BalanceConservation ==
    Solved =>
        CASE prog = "factory" -> FactoryBalanceHolds
          [] prog = "food" -> FoodBalanceHolds
          [] prog = "manpower" -> ManpowerBalanceWeighted

C3_Witness ==
    /\ prog = "manpower"
    /\ Solved
    /\ Val("workforce", <<1, "s1">>) > 0
    /\ Val("train", <<2, "s1", "s2">>) > 0
    /\ Val("layoff", <<2, "s1">>) > 0

\* C4: in every solution the June inventory of each of the seven products
\* is exactly 50 and the June store of each of the five oils is exactly 500.
C4_TerminalTarget ==
    Solved =>
        /\ prog = "factory" =>
              /\ Len(products) = 7
              /\ \A p \in Range(products) : Val("inventory", <<"Jun", p>>) = 50 * VDen
        /\ prog = "food" =>
              /\ Len(oils) = 5
              /\ \A o \in Range(oils) : Val("oil_inventory", <<"Jun", o>>) = 500 * VDen

C4_Witness ==
    /\ prog = "factory"
    /\ Solved
    /\ Val("inventory", <<"May", "Prod1">>) # 50 * VDen
    /\ Val("inventory", <<"Jun", "Prod1">>) = 50 * VDen

\* Hours of machine k one unit of product p takes, in hundredths; 0 when
\* the product does not use the machine.
HoursPerUnit(k, p) ==
    LET tr == time_required[k]
        at == {n \in 1..Len(tr) : tr[n][1] = p}
    IN  IF at = {} THEN 0 ELSE tr[CHOOSE n \in at : TRUE][2]

\* C5: in every solution of the factory model the machine hours used in
\* month m on machine type k are at most 384 hours for each machine of the
\* type that is not under maintenance in m; in every solution of the food
\* model the vegetable oils refined in a month total at most 200 and the
\* non-vegetable oils at most 250.
C5_Capacity ==
    Solved =>
        /\ prog = "factory" =>
              \A m \in Range(months) : \A k \in Range(machines) :
                  LET used(p) == HoursPerUnit(k, p) * Val("manufacture", <<m, p>>)
                  IN  SumOver(used, products)
                         <= 384 * 100 * (machines_installed[k] * VDen
                                         - Val("repair", <<m, k>>))
        /\ prog = "food" =>
              \A m \in Range(months) :
                  /\ Val("oil_consume", <<m, "VEG1">>) + Val("oil_consume", <<m, "VEG2">>)
                        <= 200 * VDen
                  /\ Val("oil_consume", <<m, "OIL1">>) + Val("oil_consume", <<m, "OIL2">>)
                        + Val("oil_consume", <<m, "OIL3">>) <= 250 * VDen

C5_Witness ==
    /\ prog = "factory"
    /\ Solved
    /\ Val("repair", <<"Jan", "horiDrill">>) > 0
    /\ Val("manufacture", <<"Feb", "Prod3">>) > 0

\* C6: in every solution of the factory model the machines of type k under
\* maintenance over the six months total machines_down[k] (2, 2, 3, 1, 1),
\* and each monthly count is an integer from 0 to machines_down[k].
C6_Downtime ==
    Solved /\ prog = "factory" =>
        /\ machines_down = [grinder |-> 2, vertDrill |-> 2, horiDrill |-> 3,
                            borer |-> 1, planer |-> 1]
        /\ \A k \in Range(machines) :
              LET down(m) == Val("repair", <<m, k>>)
              IN  /\ SumOver(down, months) = machines_down[k] * VDen
                  /\ \A m \in Range(months) :
                        /\ down(m) % VDen = 0
                        /\ 0 <= down(m)
                        /\ down(m) <= machines_down[k] * VDen

C6_Witness ==
    /\ prog = "factory"
    /\ Solved
    /\ Val("repair", <<"Jan", "horiDrill">>) = 2 * VDen
    /\ Val("repair", <<"Feb", "horiDrill">>) = 1 * VDen

\* C7: in every solution of the food model, in every month the oils refined
\* total the food produced, and the hardness-weighted oil refined (8.8, 6.1,
\* 2.0, 4.2, 5.0) lies between 3 and 6 times the food produced.
C7_FoodBlend ==
    Solved /\ prog = "food" =>
        \A m \in Range(months) :
            LET used(o) == Val("oil_consume", <<m, o>>)
                hard == 88 * used("VEG1") + 61 * used("VEG2") + 20 * used("OIL1")
                        + 42 * used("OIL2") + 50 * used("OIL3")
            IN  /\ SumOver(used, oils) = Val("prod", m)
                /\ 30 * Val("prod", m) <= hard
                /\ hard <= 60 * Val("prod", m)

C7_Witness ==
    /\ prog = "food"
    /\ Solved
    /\ Val("prod", "Jan") > 0
    /\ Val("oil_consume", <<"Jan", "VEG2">>) > 0

\* C8: in every solution of the manpower model retraining from unskilled
\* straight to skilled is 0 in each of the years 1, 2, 3, and retraining from
\* unskilled to semi-skilled is at most 200 in each year.
C8_HardZero ==
    Solved /\ prog = "manpower" =>
        \A t \in {1, 2, 3} :
            /\ Val("train", <<t, "s1", "s3">>) = 0
            /\ Val("train", <<t, "s1", "s2">>) <= 200 * VDen

C8_Witness ==
    /\ prog = "manpower"
    /\ Solved
    /\ Val("train", <<1, "s1", "s2">>) = 200 * VDen
    /\ Val("train", <<1, "s1", "s3">>) = 0

\* C9: in every solution each variable lies within its declared bounds:
\* sold in [0, max_sales], inventory in [0, 100], repair in
\* [0, machines_down], hire in [0, max_hiring], part_time in [0, 50], every
\* other variable in [0, 1000000]; none is negative.
C9_BoundRespect ==
    Solved =>
        /\ \A h \in 1..Len(solution) : 0 <= solution[h] /\ solution[h] <= 1000000 * VDen
        /\ \A k \in DOMAIN dv["sold"] : Val("sold", k) <= max_sales[k] * VDen
        /\ \A k \in DOMAIN dv["inventory"] : Val("inventory", k) <= 100 * VDen
        /\ \A k \in DOMAIN dv["repair"] : Val("repair", k) <= machines_down[k[2]] * VDen
        /\ \A k \in DOMAIN dv["hire"] : Val("hire", k) <= max_hiring[k] * VDen
        /\ \A k \in DOMAIN dv["part_time"] : Val("part_time", k) <= 50 * VDen

C9_Witness ==
    /\ prog = "factory"
    /\ Solved
    /\ max_sales[<<"Feb", "Prod4">>] = 0
    /\ Val("sold", <<"Feb", "Prod4">>) = 0
    /\ Val("manufacture", <<"Feb", "Prod4">>) > 0
    /\ Val("sold", <<"Feb", "Prod1">>) > 0

\* The ordered periods, the tracked entities, the family of the carried
\* quantity and the family of the inflow that identifies a balance
\* constraint, for the program that runs.
Periods == IF prog = "manpower" THEN years ELSE months

Entities ==
    CASE prog = "factory" -> products
      [] prog = "food" -> oils
      [] prog = "manpower" -> skills

CarriedFamily ==
    CASE prog = "factory" -> "inventory"
      [] prog = "food" -> "oil_inventory"
      [] prog = "manpower" -> "workforce"

InflowFamily ==
    CASE prog = "factory" -> "manufacture"
      [] prog = "food" -> "oil_buy"
      [] prog = "manpower" -> "hire"

\* The registered balance constraints of period t and entity e: the
\* equalities in which the period's inflow variable occurs.
BalanceCons(t, e) ==
    {n \in 1..Len(constraints) :
        /\ constraints[n].rel = "=="
        /\ Mentions(constraints[n], dv[InflowFamily][<<t, e>>])}

\* The keys of the carried-quantity variables that occur in constraint c.
CarriedIn(c) ==
    {k \in DOMAIN dv[CarriedFamily] : Mentions(c, dv[CarriedFamily][k])}

\* The constant the first period is seeded from, as lhs - rhs in fixed
\* point: no stock in the factory, the initial store of each oil, the
\* current workforce that stays.
SeedConstant(e) ==
    CASE prog = "factory" -> 0
      [] prog = "food" -> 500 * 100
      [] prog = "manpower" -> -((100 - experienced_attrition[e]) * current_workforce[e])

\* C10: the balance constraint of a period after the first refers to the
\* carried quantity of exactly the period before it (and of the period
\* itself), never wrapping round to the last period; the first period's
\* balance refers to no other period's carried quantity and is seeded from a
\* constant; there is one balance constraint for each period and entity.
C10_BalanceSequencing ==
    constraints # << >> =>
        \A tn \in 1..Len(Periods) : \A e \in Range(Entities) :
            LET t == Periods[tn]
                bal == BalanceCons(t, e)
            IN  /\ Cardinality(bal) <= 1
                /\ objSets = 1 => Cardinality(bal) = 1
                /\ \A n \in bal :
                      LET c == constraints[n]
                      IN  IF tn = 1
                          THEN /\ CarriedIn(c) = {<<t, e>>}
                               /\ c.lhs.const - c.rhs.const = SeedConstant(e)
                          ELSE /\ CarriedIn(c) = {<<Periods[tn - 1], e>>, <<t, e>>}
                               /\ c.lhs.const - c.rhs.const = 0

C10_Witness ==
    /\ prog = "factory"
    /\ objSets = 1
    /\ BalanceCons("Jan", "Prod1") # {}
    /\ BalanceCons("Jun", "Prod7") # {}
    /\ BalanceCons("Feb", "Prod1") # {}
    /\ \A n \in BalanceCons("Feb", "Prod1") :
          CarriedIn(constraints[n]) = {<<"Jan", "Prod1">>, <<"Feb", "Prod1">>}

\* The blocks in which the variable dicts are being filled.
RegistrationBlocks ==
    {"f_manufacture", "f_inventory", "f_sold", "f_repair",
     "o_prod", "o_oil_buy", "o_oil_consume", "o_oil_inventory",
     "m_hire", "m_part_time", "m_workforce", "m_layoff", "m_excess", "m_train"}

\* The index combinations of a family: every element of the product of its
\* index lists.
IndexCombinations(f) ==
    CASE f \in {"manufacture", "inventory", "sold"} -> Range(months) \X Range(products)
      [] f = "repair" -> Range(months) \X Range(machines)
      [] f = "prod" -> Range(months)
      [] f \in {"oil_buy", "oil_consume", "oil_inventory"} -> Range(months) \X Range(oils)
      [] f \in {"hire", "part_time", "workforce", "layoff", "excess"} ->
           Range(years) \X Range(skills)
      [] f = "train" -> Range(years) \X Range(skills) \X Range(skills)

FamiliesOf(p) ==
    CASE p = "factory" -> {"manufacture", "inventory", "sold", "repair"}
      [] p = "food" -> {"prod", "oil_buy", "oil_consume", "oil_inventory"}
      [] p = "manpower" -> {"hire", "part_time", "workforce", "layoff", "excess", "train"}

ExpectedCount(p) ==
    CASE p = "factory" -> 156 [] p = "food" -> 96 [] p = "manpower" -> 72

\* The handles an expression refers to.
HandlesIn(e) == {e.terms[n][2] : n \in 1..Len(e.terms)}

\* C11: every index combination of every variable family is registered
\* exactly once (each solver variable is held under exactly one key and each
\* key holds one solver variable), no two variables share a name, no lookup
\* made while building a constraint or the objective misses (no KeyError,
\* every handle referred to is a registered variable), and once the dicts
\* are filled each family holds exactly its index combinations and the
\* solver has 156 (factory), 96 (food) and 72 (manpower) variables.
C11_VariableRegistry ==
    /\ pc # "KeyError"
    /\ \A f \in Families : \A k \in DOMAIN dv[f] :
          /\ k \in IndexCombinations(f)
          /\ f \in FamiliesOf(prog)
          /\ dv[f][k] \in Handles
    /\ \A h \in Handles :
          Cardinality({f \in Families : \E k \in DOMAIN dv[f] : dv[f][k] = h}) = 1
    /\ \A f \in Families : \A k1, k2 \in DOMAIN dv[f] :
          dv[f][k1] = dv[f][k2] => k1 = k2
    /\ \A h1, h2 \in Handles :
          variables[h1].name = variables[h2].name => h1 = h2
    /\ \A n \in 1..Len(constraints) :
          HandlesIn(constraints[n].lhs) \cup HandlesIn(constraints[n].rhs) \subseteq Handles
    /\ HandlesIn(objective.expr) \subseteq Handles
    /\ pc \notin RegistrationBlocks =>
          /\ \A f \in FamiliesOf(prog) : DOMAIN dv[f] = IndexCombinations(f)
          /\ Len(variables) = ExpectedCount(prog)

\* A finished manpower run: the 72 variables are registered and the
\* constraints and the objective have looked them up.
C11_Witness ==
    /\ prog = "manpower"
    /\ pc = "done"
    /\ Len(variables) = 72
    /\ constraints # << >>
    /\ objective.sense = "min"
    /\ DOMAIN dv["train"] = IndexCombinations("train")

====
